---- MODULE Spec2Model ----
(***************************************************************************)
(* Model of src/visualization/visualizer.py (class BenchmarkVisualizer):   *)
(* one run of run_analysis over an input file benchmark_results.json.      *)
(*                                                                         *)
(* JSON objects are functions from the keys that are present; a key test   *)
(* ('k' in d) is k \in DOMAIN d and a subscript d['k'] of an absent key    *)
(* raises KeyError.  Numbers are exact rationals <<numerator, denominator>>*)
(* in lowest terms (Python computes them in binary floating point; the     *)
(* rounding error of a float division is not modelled).                    *)
(***************************************************************************)
EXTENDS Integers, Sequences, FiniteSets, TLC

VARIABLES
    file,         \* benchmarks/metrics/benchmark_results.json as found on disk
    pc,           \* position of run_analysis
    data,         \* run_analysis: data
    metrics,      \* create_comprehensive_comparison: metrics
    improvements, \* create_comprehensive_comparison: improvements
    annotated,    \* bars of bars1 that got an "% improvement" annotation
    table_data,   \* create_comprehensive_comparison: table_data
    image,        \* llm_performance_comparison.png written by this run
    csv,          \* performance_comparison_table.csv written by this run
    error         \* exception that ended the run, "" while none

vars == <<file, pc, data, metrics, improvements, annotated, table_data, image, csv, error>>

-----------------------------------------------------------------------------
(* Bounds of the model *)

\* longest results.streaming list of the input
MaxCases == 2

-----------------------------------------------------------------------------
(* Exact rational arithmetic *)

Abs(n) == IF n < 0 THEN -n ELSE n

RECURSIVE GCD(_, _)
GCD(a, b) == IF b = 0 THEN a ELSE GCD(b, a % b)

\* n/d in lowest terms with a positive denominator (d # 0)
Q(n, d) ==
    LET g == GCD(Abs(n), Abs(d))
        s == IF d < 0 THEN -1 ELSE 1
    IN  <<(s * n) \div g, (s * d) \div g>>

R(n) == <<n, 1>>

RAdd(a, b) == Q(a[1] * b[2] + b[1] * a[2], a[2] * b[2])
RSub(a, b) == Q(a[1] * b[2] - b[1] * a[2], a[2] * b[2])
RMul(a, b) == Q(a[1] * b[1], a[2] * b[2])
RDiv(a, b) == Q(a[1] * b[2], a[2] * b[1])
RLt(a, b)  == a[1] * b[2] < b[1] * a[2]
RLe(a, b)  == a[1] * b[2] <= b[1] * a[2]
RPos(a)    == a[1] > 0
RMin(a, b) == IF RLe(a, b) THEN a ELSE b
RMax(a, b) == IF RLe(a, b) THEN b ELSE a

RECURSIVE RSum(_)
RSum(s) == IF s = <<>> THEN R(0) ELSE RAdd(s[1], RSum(Tail(s)))

\* the mean replaced by the plain sum
MeanAsSum(s) == RSum(s)

\* sum(xs) / len(xs)
Mean(s) == RDiv(RSum(s), R(Len(s)))

-----------------------------------------------------------------------------
(* The input: what the external benchmark runner may have left on disk *)

StreamMeans == {0, 500}
TtfbMeans   == {0, 100}
StreamRates == {0, 100}
PlainMeans  == {0, 20000}
PlainRates  == {0, 90}
WarmMeans   == {0, 200, 30000}
CacheRates  == {99}

\* test_case['streaming']: well-formed, or with sub-fields missing
StreamingSubs ==
    { [mean |-> R(m), ttfb |-> [mean |-> R(t)], successRate |-> R(s)] :
          m \in StreamMeans, t \in TtfbMeans, s \in StreamRates }
    \cup { <<>>, [mean |-> R(500), successRate |-> R(100)] }

\* test_case['nonStreaming']: well-formed, or with sub-fields missing
NonStreamingSubs ==
    { [mean |-> R(m), successRate |-> R(s)] : m \in PlainMeans, s \in PlainRates }
    \cup { <<>> }

ExampleStreaming    == [mean |-> R(500), ttfb |-> [mean |-> R(100)], successRate |-> R(100)]
ExampleNonStreaming == [mean |-> R(20000), successRate |-> R(90)]

\* a test case none of whose requests succeeded
FailedCase ==
    [streaming    |-> [mean |-> R(500), ttfb |-> [mean |-> R(100)], successRate |-> R(0)],
     nonStreaming |-> [mean |-> R(20000), successRate |-> R(0)]]

\* elements of results.streaming: both sub-records, or one of them absent
TestCases ==
    { [streaming |-> s, nonStreaming |-> ExampleNonStreaming] : s \in StreamingSubs }
    \cup { [streaming |-> ExampleStreaming, nonStreaming |-> n] : n \in NonStreamingSubs }
    \cup { [streaming |-> ExampleStreaming], [nonStreaming |-> ExampleNonStreaming], FailedCase }

Performances == { <<>> } \cup { [warmCacheMean |-> R(w)] : w \in WarmMeans }

Overalls ==
    { <<>> }
    \cup { [performance |-> p] : p \in Performances }
    \cup { [overallSuccessRate |-> R(r)] : r \in CacheRates }
    \cup { [performance |-> p, overallSuccessRate |-> R(r)] :
               p \in Performances, r \in CacheRates }

\* elements of results.caching
CachingResults == { <<>> } \cup { [overall |-> o] : o \in Overalls }

OtherCachingResult ==
    [overall |-> [performance |-> [warmCacheMean |-> R(700)], overallSuccessRate |-> R(50)]]

SeqsUpTo(S, n) == UNION { [1..k -> S] : k \in 0..n }

StreamingLists == SeqsUpTo(TestCases, MaxCases)

ExampleCachingResult ==
    [overall |-> [performance |-> [warmCacheMean |-> R(200)], overallSuccessRate |-> R(95)]]

\* results.caching: empty, one element, or a first element followed by another
CachingLists ==
    { <<>> } \cup { <<c>> : c \in CachingResults }
             \cup { <<c, OtherCachingResult>> :
                        c \in {<<>>, [overall |-> <<>>], ExampleCachingResult} }

ResultsObjects ==
    { <<>> }
    \cup { [streaming |-> s] : s \in StreamingLists }
    \cup { [caching |-> c] : c \in CachingLists }
    \cup { [streaming |-> s, caching |-> c] : s \in StreamingLists, c \in CachingLists }

\* a JSON object at top level: empty, without 'results', or with 'results'
BenchmarkRecords ==
    { <<>>, [timestamp |-> "t", testType |-> "streaming"] }
    \cup { [timestamp |-> "t", results |-> r] : r \in ResultsObjects }

Files ==
    { [kind |-> k] : k \in {"missing", "unreadable", "invalid"} }
    \cup { [kind |-> "json", value |-> v] : v \in BenchmarkRecords }

-----------------------------------------------------------------------------
(* extract_metrics_from_data *)

Techniques == <<"plain_llm", "streaming", "cached", "combined">>
TechniqueSet == { Techniques[i] : i \in 1..4 }

Bucket(rt, tt, sr, th) ==
    [response_time |-> rt, ttfb |-> tt, success_rate |-> sr, throughput |-> th]

ZeroBucket == Bucket(R(0), R(0), R(0), R(0))

DefaultBucket(technique) ==
    CASE technique = "plain_llm" -> Bucket(R(25800), R(25800), R(68), Q(39, 1000))
      [] technique = "streaming" -> Bucket(R(3200), R(450), R(89), Q(31, 100))
      [] technique = "cached"    -> Bucket(R(150), R(150), R(96), Q(667, 100))
      [] technique = "combined"  -> Bucket(R(120), R(120), R(97), Q(833, 100))

DefaultMetrics == [t \in TechniqueSet |-> DefaultBucket(t)]

\* requests per millisecond instead of per second
ThroughputPerMs(rt) == IF RPos(rt) THEN RDiv(R(1), rt) ELSE R(0)

\* 1000 / response_time if response_time > 0 else 0
Throughput(rt) == IF RPos(rt) THEN RDiv(R(1000), rt) ELSE R(0)

\* if 'streaming' in test_case and 'nonStreaming' in test_case
BothPresent(tc) == "streaming" \in DOMAIN tc /\ "nonStreaming" \in DOMAIN tc

\* every test case collected, whatever its successRate
CollectedAny(tc, sub) == BothPresent(tc)

\* if test_case[sub]['successRate'] > 0
Collected(tc, sub) == BothPresent(tc) /\ RPos(tc[sub].successRate)

\* the subscripts of one loop iteration that raise KeyError
CaseRaises(tc) ==
    /\ BothPresent(tc)
    /\ \/ "successRate" \notin DOMAIN tc.streaming
       \/ /\ RPos(tc.streaming.successRate)
          /\ \/ "mean" \notin DOMAIN tc.streaming
             \/ "ttfb" \notin DOMAIN tc.streaming
             \/ "mean" \notin DOMAIN tc.streaming.ttfb
       \/ "successRate" \notin DOMAIN tc.nonStreaming
       \/ /\ RPos(tc.nonStreaming.successRate)
          /\ "mean" \notin DOMAIN tc.nonStreaming

HasStreaming(results) == "streaming" \in DOMAIN results /\ Len(results.streaming) > 0
HasCaching(results)   == "caching" \in DOMAIN results /\ Len(results.caching) > 0

\* not data or 'results' not in data
NoResults(d) == d = <<>> \/ "results" \notin DOMAIN d

\* extract_metrics_from_data raises instead of returning
ExtractRaises(d) ==
    /\ ~NoResults(d)
    /\ HasStreaming(d.results)
    /\ \E i \in 1..Len(d.results.streaming) : CaseRaises(d.results.streaming[i])

Field(s, f) == [i \in 1..Len(s) |-> s[i][f]]

\* the loop over streaming_data and the two averaging blocks
StreamingStep(m, results) ==
    IF ~HasStreaming(results) THEN m
    ELSE
    LET streaming_data   == results.streaming
        sCases           == SelectSeq(streaming_data, LAMBDA tc : Collected(tc, "streaming"))
        nCases           == SelectSeq(streaming_data, LAMBDA tc : Collected(tc, "nonStreaming"))
        sSubs            == [i \in 1..Len(sCases) |-> sCases[i].streaming]
        nSubs            == [i \in 1..Len(nCases) |-> nCases[i].nonStreaming]
        streaming_times  == Field(sSubs, "mean")
        ttfb_times       == [i \in 1..Len(sSubs) |-> sSubs[i].ttfb.mean]
        streaming_success    == Field(sSubs, "successRate")
        nonstreaming_times   == Field(nSubs, "mean")
        nonstreaming_success == Field(nSubs, "successRate")
        s == IF streaming_times # <<>>
             THEN Bucket(Mean(streaming_times), Mean(ttfb_times), Mean(streaming_success),
                         Throughput(Mean(streaming_times)))
             ELSE m["streaming"]
        p == IF nonstreaming_times # <<>>
             THEN Bucket(Mean(nonstreaming_times), Mean(nonstreaming_times),
                         Mean(nonstreaming_success), Throughput(Mean(nonstreaming_times)))
             ELSE m["plain_llm"]
    IN  [m EXCEPT !["streaming"] = s, !["plain_llm"] = p]

\* the block "Extract caching data"
CachingStep(m, results) ==
    IF ~HasCaching(results) THEN m
    ELSE
    LET caching_data == results.caching[1]
    IN  IF ~("overall" \in DOMAIN caching_data /\ "performance" \in DOMAIN caching_data.overall)
        THEN m
        ELSE
        LET perf == caching_data.overall.performance
            c0 == m["cached"]
            c1 == IF "warmCacheMean" \in DOMAIN perf /\ RPos(perf.warmCacheMean)
                  THEN [c0 EXCEPT !.response_time = perf.warmCacheMean,
                                  !.ttfb = perf.warmCacheMean,
                                  !.throughput = RDiv(R(1000), perf.warmCacheMean)]
                  ELSE c0
            c2 == IF "overallSuccessRate" \in DOMAIN caching_data.overall
                  THEN [c1 EXCEPT !.success_rate = caching_data.overall.overallSuccessRate]
                  ELSE c1
        IN  [m EXCEPT !["cached"] = c2]

\* combined derived from the cached default when cached has no data
CombinedStepOnDefault(m) ==
    LET c  == IF RPos(m["cached"].response_time) THEN m["cached"] ELSE DefaultBucket("cached")
        rt == RMul(c.response_time, Q(8, 10))
    IN  [m EXCEPT !["combined"] =
            Bucket(rt, RMul(c.ttfb, Q(8, 10)), RMin(R(99), RAdd(c.success_rate, R(1))),
                   Throughput(rt))]

\* the block "Calculate combined metrics"
CombinedStep(m) ==
    IF RPos(m["cached"].response_time)
    THEN LET rt == RMul(m["cached"].response_time, Q(8, 10))
         IN  [m EXCEPT !["combined"] =
                 Bucket(rt, RMul(m["cached"].ttfb, Q(8, 10)),
                        RMin(R(99), RAdd(m["cached"].success_rate, R(1))),
                        Throughput(rt))]
    ELSE m

\* only a negative response_time replaced
NeedsDefaultNegative(b) == RLt(b.response_time, R(0))

\* if metrics[technique]['response_time'] <= 0
NeedsDefault(b) == RLe(b.response_time, R(0))

\* the loop "Fill in any missing values with reasonable defaults"
FillDefaults(m) ==
    [t \in TechniqueSet |-> IF NeedsDefault(m[t]) THEN DefaultBucket(t) ELSE m[t]]

\* the value extract_metrics_from_data returns when it returns
extract_metrics_from_data(d) ==
    IF NoResults(d) THEN DefaultMetrics
    ELSE FillDefaults(CombinedStep(CachingStep(
             StreamingStep([t \in TechniqueSet |-> ZeroBucket], d.results), d.results)))

-----------------------------------------------------------------------------
(* Number formatting: f'{x:.kf}' *)

RECURSIVE Pow10(_)
Pow10(k) == IF k = 0 THEN 1 ELSE 10 * Pow10(k - 1)

\* n written with at least k digits, zero-padded on the left
RECURSIVE Digits(_, _)
Digits(n, k) ==
    IF k <= 1 THEN ToString(n)
    ELSE IF n < Pow10(k - 1) THEN "0" \o Digits(n, k - 1)
    ELSE ToString(n)

\* x rounded to k decimals (ties to even), as a string with k decimals
FormatFixed(x, k) ==
    LET scaled == Abs(x[1]) * Pow10(k)
        q      == scaled \div x[2]
        r      == scaled % x[2]
        up     == 2 * r > x[2] \/ (2 * r = x[2] /\ q % 2 = 1)
        v      == IF up THEN q + 1 ELSE q
        sign   == IF x[1] < 0 THEN "-" ELSE ""
    IN  sign \o ToString(v \div Pow10(k))
             \o (IF k = 0 THEN "" ELSE "." \o Digits(v % Pow10(k), k))

\* the millisecond value printed without the division by 1000
SecondsRaw(ms, k) == FormatFixed(ms, k) \o "s"

\* f'{ms/1000:.kf}s'
Seconds(ms, k) == FormatFixed(RDiv(ms, R(1000)), k) \o "s"

-----------------------------------------------------------------------------
(* create_comprehensive_comparison *)

response_times(m) == [i \in 1..4 |-> m[Techniques[i]].response_time]

\* ((baseline - rt) / baseline) * 100
Improvement(baseline, rt) == RMul(RDiv(RSub(baseline, rt), baseline), R(100))

\* improvements = [0] + [... for rt in response_times[1:]]
Improvements(m) ==
    LET baseline == response_times(m)[1]
    IN  [i \in 1..4 |-> IF i = 1 THEN R(0) ELSE Improvement(baseline, response_times(m)[i])]

\* the test improvement >= 0
GetsAnnotationNonNegative(improvement) == RLe(R(0), improvement)

\* if improvement > 0: ax_main.annotate(...)
GetsAnnotation(improvement) == RPos(improvement)

\* the bars annotated with an improvement, and the value each annotation shows
Annotations(imp) == [i \in { j \in 1..4 : GetsAnnotation(imp[j]) } |-> imp[i]]

\* the two divisions by a baseline value that raise ZeroDivisionError
DividesByZero(m) ==
    \/ m["plain_llm"].response_time = R(0)
    \/ m["plain_llm"].ttfb = R(0)

TableData(m) ==
    LET p == m["plain_llm"]
        s == m["streaming"]
        c == m["cached"]
        b == m["combined"]
        imp == Improvements(m)
        ttfb_improvement == RMul(RDiv(RSub(p.ttfb, s.ttfb), p.ttfb), R(100))
        throughput_improvement ==
            IF RPos(p.throughput) THEN RDiv(b.throughput, p.throughput) ELSE R(0)
    IN  << <<"Metric", "Plain LLM", "Streaming", "Cached", "Combined", "Best Improvement">>,
           <<"Total Response Time", Seconds(p.response_time, 1), Seconds(s.response_time, 1),
             Seconds(c.response_time, 2), Seconds(b.response_time, 2),
             FormatFixed(imp[4], 1) \o "% faster">>,
           <<"Time to First Byte", Seconds(p.ttfb, 1), Seconds(s.ttfb, 2),
             Seconds(c.ttfb, 2), Seconds(b.ttfb, 2),
             FormatFixed(ttfb_improvement, 0) \o "% faster TTFB">>,
           <<"Throughput", FormatFixed(p.throughput, 3) \o " req/s",
             FormatFixed(s.throughput, 2) \o " req/s",
             FormatFixed(c.throughput, 1) \o " req/s",
             FormatFixed(b.throughput, 1) \o " req/s",
             FormatFixed(throughput_improvement, 0) \o "x higher">>,
           <<"Success Rate", FormatFixed(p.success_rate, 0) \o "%",
             FormatFixed(s.success_rate, 0) \o "%",
             FormatFixed(c.success_rate, 0) \o "%",
             FormatFixed(b.success_rate, 0) \o "%",
             FormatFixed(RSub(b.success_rate, p.success_rate), 0) \o "% more reliable">>,
           <<"User Experience", "Poor (long wait)", "Good (fast start)",
             "Excellent (instant)", "Outstanding", "Revolutionary">>,
           <<"Cost Effectiveness", "High cost/req", "Medium cost", "Low cost",
             "Very Low cost", "Massive savings">> >>

-----------------------------------------------------------------------------
(* save_table_as_csv *)

\* ','.join([f'"{cell}"' for cell in row])
RECURSIVE CsvLine(_)
CsvLine(row) ==
    IF Len(row) = 1 THEN "\"" \o row[1] \o "\""
    ELSE "\"" \o row[1] \o "\"," \o CsvLine(Tail(row))

\* the lines written to performance_comparison_table.csv
CsvContent(t) == [i \in 1..Len(t) |-> CsvLine(t[i])]

-----------------------------------------------------------------------------
(* run_analysis, one step per call it makes *)

None == [py_none |-> TRUE]
IsNone(v) == "py_none" \in DOMAIN v

NoFile == [exists |-> FALSE, lines |-> <<>>]

\* load_latest_results: json.load of an existing file, None otherwise
\* (a read or parse error is caught by "except Exception")
LoadResult(f) == IF f.kind = "json" THEN f.value ELSE None

\* if not data: data = {'results': {'streaming': []}, 'timestamp': ...}
OrRepresentative(d) ==
    IF IsNone(d) \/ d = <<>>
    THEN [results |-> [streaming |-> <<>>], timestamp |-> "now"]
    ELSE d

Init ==
    /\ file \in Files
    /\ pc = "load"
    /\ data = None
    /\ metrics = None
    /\ improvements = <<>>
    /\ annotated = <<>>
    /\ table_data = <<>>
    /\ image = "none"
    /\ csv = NoFile
    /\ error = ""

LoadLatestResults ==
    /\ pc = "load"
    /\ data' = LoadResult(file)
    /\ pc' = "extract"
    /\ UNCHANGED <<file, metrics, improvements, annotated, table_data, image, csv, error>>

\* run_analysis up to and including the first statement of
\* create_comprehensive_comparison
ExtractMetrics ==
    /\ pc = "extract"
    /\ data' = OrRepresentative(data)
    /\ IF ExtractRaises(data')
       THEN /\ error' = "KeyError"
            /\ pc' = "failed"
            /\ UNCHANGED metrics
       ELSE /\ metrics' = extract_metrics_from_data(data')
            /\ pc' = "chart"
            /\ UNCHANGED error
    /\ UNCHANGED <<file, improvements, annotated, table_data, image, csv>>

\* create_comprehensive_comparison from the figure to table_data
BuildChart ==
    /\ pc = "chart"
    /\ IF DividesByZero(metrics)
       THEN /\ error' = "ZeroDivisionError"
            /\ pc' = "failed"
            /\ UNCHANGED <<improvements, annotated, table_data>>
       ELSE /\ improvements' = Improvements(metrics)
            /\ annotated' = Annotations(improvements')
            /\ table_data' = TableData(metrics)
            /\ pc' = "savefig"
            /\ UNCHANGED error
    /\ UNCHANGED <<file, data, metrics, image, csv>>

\* a matplotlib call of the chart construction raises
BuildChartFails ==
    /\ pc = "chart"
    /\ error' = "RenderError"
    /\ pc' = "failed"
    /\ UNCHANGED <<file, data, metrics, improvements, annotated, table_data, image, csv>>

\* plt.savefig(...) and return table_data
SaveFig ==
    /\ pc = "savefig"
    /\ image' = "saved"
    /\ pc' = "csv"
    /\ UNCHANGED <<file, data, metrics, improvements, annotated, table_data, csv, error>>

\* a failed savefig swallowed, the run going on to the CSV
SaveFigFailsSwallowed ==
    /\ pc = "savefig"
    /\ image' \in {"none", "partial"}
    /\ pc' = "csv"
    /\ UNCHANGED <<file, data, metrics, improvements, annotated, table_data, csv, error>>

\* plt.savefig raises, with nothing or part of the image on disk
SaveFigFails ==
    /\ pc = "savefig"
    /\ image' \in {"none", "partial"}
    /\ error' = "OSError"
    /\ pc' = "failed"
    /\ UNCHANGED <<file, data, metrics, improvements, annotated, table_data, csv>>

save_table_as_csv ==
    /\ pc = "csv"
    /\ csv' = [exists |-> TRUE, lines |-> CsvContent(table_data)]
    /\ pc' = "done"
    /\ UNCHANGED <<file, data, metrics, improvements, annotated, table_data, image, error>>

\* open() raises (no file), or f.write raises (file created, nothing flushed)
SaveCsvFails ==
    /\ pc = "csv"
    /\ csv' \in {NoFile, [exists |-> TRUE, lines |-> <<>>]}
    /\ error' = "OSError"
    /\ pc' = "failed"
    /\ UNCHANGED <<file, data, metrics, improvements, annotated, table_data, image>>

Next ==
    \/ LoadLatestResults
    \/ ExtractMetrics
    \/ BuildChart
    \/ BuildChartFails
    \/ SaveFig
    \/ SaveFigFails
    \/ save_table_as_csv
    \/ SaveCsvFails

Spec == Init /\ [][Next]_vars

-----------------------------------------------------------------------------
(* Vocabulary of the properties *)

Fields == {"response_time", "ttfb", "success_rate", "throughput"}

\* extract_metrics_from_data has returned in this run
Extracted == ~IsNone(metrics)

\* the input file could not be loaded
LoadFailed == file.kind \in {"missing", "unreadable", "invalid"}

\* results.streaming of a record, empty when absent
CasesOf(d) ==
    IF "results" \in DOMAIN d /\ "streaming" \in DOMAIN d.results
    THEN d.results.streaming ELSE <<>>

\* the sub-records sub of the test cases whose sub.successRate > 0
SucceededSubs(d, sub) ==
    LET sel == SelectSeq(CasesOf(d), LAMBDA tc :
                   /\ sub \in DOMAIN tc
                   /\ "successRate" \in DOMAIN tc[sub]
                   /\ RPos(tc[sub].successRate))
    IN  [i \in 1..Len(sel) |-> sel[i][sub]]

\* the same, among the test cases that carry both sub-records
SucceededPairedSubs(d, sub) ==
    LET sel == SelectSeq(CasesOf(d), LAMBDA tc :
                   /\ "streaming" \in DOMAIN tc
                   /\ "nonStreaming" \in DOMAIN tc
                   /\ RPos(tc[sub].successRate))
    IN  [i \in 1..Len(sel) |-> sel[i][sub]]

ArithMean(s) == RDiv(RSum(s), R(Len(s)))
MeanOf(subs, f) == ArithMean([i \in 1..Len(subs) |-> subs[i][f]])
TtfbMeanOf(subs) == ArithMean([i \in 1..Len(subs) |-> subs[i].ttfb.mean])

\* the first caching element carries warmCacheMean > 0
UsableWarmCache(d) ==
    /\ "results" \in DOMAIN d
    /\ "caching" \in DOMAIN d.results
    /\ Len(d.results.caching) > 0
    /\ "overall" \in DOMAIN d.results.caching[1]
    /\ "performance" \in DOMAIN d.results.caching[1].overall
    /\ "warmCacheMean" \in DOMAIN d.results.caching[1].overall.performance
    /\ RPos(d.results.caching[1].overall.performance.warmCacheMean)

\* every test case of a non-empty results.streaming has sub.successRate = 0
AllRatesZero(d, sub) ==
    /\ CasesOf(d) # <<>>
    /\ \A i \in 1..Len(CasesOf(d)) :
           /\ BothPresent(CasesOf(d)[i])
           /\ "successRate" \in DOMAIN CasesOf(d)[i][sub]
           /\ CasesOf(d)[i][sub].successRate = R(0)

-----------------------------------------------------------------------------
(* Properties *)

\* C1: extract_metrics_from_data never raises, for any record, and what it
\* returns holds all four techniques, each with all four fields.
C1_ExtractNeverFails ==
    /\ error # "KeyError"
    /\ pc \notin {"load", "extract"} =>
           /\ Extracted
           /\ DOMAIN metrics = TechniqueSet
           /\ \A t \in TechniqueSet : DOMAIN metrics[t] = Fields

\* C2: every field of every technique of a returned map is strictly positive.
C2_AllFieldsPositive ==
    Extracted => \A t \in TechniqueSet : \A f \in Fields : RPos(metrics[t][f])

\* C3 as stated: in every returned bucket, defaults included, throughput times
\* response_time is exactly 1000 (and throughput is 0 when response_time is 0).
C3_ThroughputExactEverywhere ==
    Extracted =>
        \A t \in TechniqueSet :
            IF RPos(metrics[t].response_time)
            THEN RMul(metrics[t].throughput, metrics[t].response_time) = R(1000)
            ELSE metrics[t].response_time = R(0) => metrics[t].throughput = R(0)

\* C3 amended: every returned bucket is either the fixed default of its
\* technique, or has a positive response_time and throughput times
\* response_time exactly 1000.
C3_ThroughputExactUnlessDefault ==
    Extracted =>
        \A t \in TechniqueSet :
            \/ metrics[t] = DefaultBucket(t)
            \/ /\ RPos(metrics[t].response_time)
               /\ RMul(metrics[t].throughput, metrics[t].response_time) = R(1000)

\* a computed (non-default) streaming bucket whose throughput is not an integer
C3_Witness ==
    /\ Extracted
    /\ metrics["streaming"] # DefaultBucket("streaming")
    /\ metrics["streaming"].response_time = R(250)
    /\ metrics["cached"] # DefaultBucket("cached")

\* C4: combined.response_time is 0.8 x cached.response_time whenever
\* cached.response_time > 0, and without usable caching data (no first
\* caching element with warmCacheMean > 0) combined is its own static
\* default bucket 120/120/97/8.33.
C4_CombinedFromCached ==
    Extracted =>
        /\ RPos(metrics["cached"].response_time) =>
               metrics["combined"].response_time
                   = RMul(Q(8, 10), metrics["cached"].response_time)
        /\ ~UsableWarmCache(data) =>
               metrics["combined"] = Bucket(R(120), R(120), R(97), Q(833, 100))

\* warmCacheMean = 200 gives combined.response_time = 160
C4_Witness ==
    /\ Extracted
    /\ UsableWarmCache(data)
    /\ metrics["cached"].response_time = R(200)
    /\ metrics["combined"].response_time = R(160)

\* C5: when every streaming test case has streaming.successRate = 0 the
\* streaming bucket is exactly 3200/450/89/0.31, and when every test case has
\* nonStreaming.successRate = 0 the plain_llm bucket is exactly
\* 25800/25800/68/0.039, whatever the mean values.
C5_ZeroRatesGiveDefaults ==
    Extracted =>
        /\ AllRatesZero(data, "streaming") =>
               metrics["streaming"] = Bucket(R(3200), R(450), R(89), Q(31, 100))
        /\ AllRatesZero(data, "nonStreaming") =>
               metrics["plain_llm"] = Bucket(R(25800), R(25800), R(68), Q(39, 1000))

\* both rates zero in every test case, with non-zero means
C5_Witness ==
    /\ Extracted
    /\ AllRatesZero(data, "streaming")
    /\ AllRatesZero(data, "nonStreaming")
    /\ \E i \in 1..Len(CasesOf(data)) :
           /\ RPos(CasesOf(data)[i].streaming.mean)
           /\ RPos(CasesOf(data)[i].nonStreaming.mean)
    /\ metrics["streaming"] = DefaultBucket("streaming")
    /\ metrics["plain_llm"] = DefaultBucket("plain_llm")

\* the summary line a run on default metrics writes as first data row
DefaultFirstRow ==
    "\"Total Response Time\",\"25.8s\",\"3.2s\",\"0.15s\",\"0.12s\",\"99.5% faster\""

\* C6: with the input file missing, unreadable or not valid JSON,
\* load_latest_results returns None without raising, the run goes on to
\* extract and render with all four buckets at their defaults, and the first
\* data row of the CSV reads "25.8s" for Plain LLM under Total Response Time.
C6_MissingFileGivesDefaults ==
    LoadFailed =>
        /\ pc = "extract" => IsNone(data) /\ error = ""
        /\ pc \notin {"load", "extract"} => Extracted /\ metrics = DefaultMetrics
        /\ table_data # <<>> =>
               /\ table_data[1][2] = "Plain LLM"
               /\ table_data[2][1] = "Total Response Time"
               /\ table_data[2][2] = "25.8s"
        /\ csv.lines # <<>> => csv.lines[2] = DefaultFirstRow

\* a complete run without an input file
C6_Witness ==
    /\ file.kind = "missing"
    /\ pc = "done"
    /\ csv.exists
    /\ Len(csv.lines) = 7

\* C7 as stated: with at least one test case of streaming.successRate > 0,
\* streaming's response_time, ttfb and success_rate are the means over exactly
\* the test cases with streaming.successRate > 0; likewise plain_llm over the
\* test cases with nonStreaming.successRate > 0, with ttfb = response_time.
C7_MeansOverSucceeded ==
    Extracted =>
        LET S == SucceededSubs(data, "streaming")
            N == SucceededSubs(data, "nonStreaming")
        IN  /\ S # <<>> =>
                   /\ metrics["streaming"].response_time = MeanOf(S, "mean")
                   /\ metrics["streaming"].ttfb = TtfbMeanOf(S)
                   /\ metrics["streaming"].success_rate = MeanOf(S, "successRate")
            /\ N # <<>> =>
                   /\ metrics["plain_llm"].response_time = MeanOf(N, "mean")
                   /\ metrics["plain_llm"].success_rate = MeanOf(N, "successRate")
                   /\ metrics["plain_llm"].ttfb = metrics["plain_llm"].response_time

\* C7 amended: the means are taken over the test cases that carry both
\* sub-records and have the relevant successRate > 0, and they are returned
\* when the mean response time is > 0; when it is not, the bucket is the
\* technique's fixed default.  plain_llm.ttfb equals plain_llm.response_time.
C7_MeansOverPairedSucceeded ==
    Extracted =>
        LET S == SucceededPairedSubs(data, "streaming")
            N == SucceededPairedSubs(data, "nonStreaming")
        IN  /\ S # <<>> =>
                   IF RPos(MeanOf(S, "mean"))
                   THEN /\ metrics["streaming"].response_time = MeanOf(S, "mean")
                        /\ metrics["streaming"].ttfb = TtfbMeanOf(S)
                        /\ metrics["streaming"].success_rate = MeanOf(S, "successRate")
                   ELSE metrics["streaming"] = DefaultBucket("streaming")
            /\ N # <<>> =>
                   IF RPos(MeanOf(N, "mean"))
                   THEN /\ metrics["plain_llm"].response_time = MeanOf(N, "mean")
                        /\ metrics["plain_llm"].success_rate = MeanOf(N, "successRate")
                   ELSE metrics["plain_llm"] = DefaultBucket("plain_llm")
            /\ metrics["plain_llm"].ttfb = metrics["plain_llm"].response_time

\* two test cases, both with succeeded streaming requests of different means,
\* only one with succeeded nonStreaming requests
C7_Witness ==
    /\ Extracted
    /\ Len(CasesOf(data)) = 2
    /\ Len(SucceededPairedSubs(data, "streaming")) = 2
    /\ Len(SucceededPairedSubs(data, "nonStreaming")) = 1
    /\ metrics["streaming"].response_time = R(250)
    /\ metrics["streaming"].ttfb = R(50)
    /\ metrics["plain_llm"].response_time = R(20000)
    /\ metrics["plain_llm"].ttfb = R(20000)

\* the chart has been built in this run
ChartBuilt == improvements # <<>>

\* the annotation of bar i shows (baseline - value) / baseline x 100
AnnotationValueOk(i) ==
    RMul(annotated[i], metrics["plain_llm"].response_time)
        = RMul(RSub(metrics["plain_llm"].response_time,
                    metrics[Techniques[i]].response_time), R(100))

\* C8 as stated: each of streaming, cached and combined gets an improvement
\* annotation of value (baseline - value) / baseline x 100, and the plain_llm
\* bar gets none.
C8_EveryNonBaselineAnnotated ==
    ChartBuilt =>
        /\ DOMAIN annotated = {2, 3, 4}
        /\ \A i \in DOMAIN annotated : AnnotationValueOk(i)

\* C8 amended: a non-baseline bar gets the annotation exactly when its
\* response_time is below the baseline (improvement > 0), its value is
\* (baseline - value) / baseline x 100, and the plain_llm bar gets none.
C8_FasterBarsAnnotated ==
    ChartBuilt =>
        /\ DOMAIN annotated =
               { i \in 2..4 : RLt(metrics[Techniques[i]].response_time,
                                  metrics["plain_llm"].response_time) }
        /\ \A i \in DOMAIN annotated : AnnotationValueOk(i)

\* cached slower than the baseline and not annotated, the others annotated
C8_Witness ==
    /\ ChartBuilt
    /\ DOMAIN annotated = {2, 4}
    /\ RLt(metrics["plain_llm"].response_time, metrics["cached"].response_time)

\* C9: the steps run in the order load, extract, save image, write CSV; the
\* CSV is touched only after the image of the run is saved, a failure before
\* that ends the run without CSV, and CSV without image is never reached.
C9_CsvOnlyAfterImage ==
    /\ csv.exists => image = "saved" /\ pc \in {"done", "failed"}
    /\ image # "none" => Extracted /\ table_data # <<>>
    /\ Extracted => pc \notin {"load", "extract"}
    /\ pc = "done" => image = "saved" /\ csv.exists /\ error = ""
    /\ pc = "failed" /\ image # "saved" => ~csv.exists

\* the partial outcome: image saved, run ended, no CSV
C9_Witness ==
    /\ pc = "failed"
    /\ image = "saved"
    /\ ~csv.exists

\* C10: every returned response_time and plain_llm.ttfb is strictly positive,
\* so no division by a baseline value in the renderer divides by zero.
C10_NoDivisionByZero ==
    /\ error # "ZeroDivisionError"
    /\ Extracted =>
           /\ \A t \in TechniqueSet : RPos(metrics[t].response_time)
           /\ RPos(metrics["plain_llm"].ttfb)
           /\ ~DividesByZero(metrics)

\* succeeded nonStreaming requests of mean 0: the baseline is the default
C10_Witness ==
    /\ ChartBuilt
    /\ SucceededPairedSubs(data, "nonStreaming") # <<>>
    /\ MeanOf(SucceededPairedSubs(data, "nonStreaming"), "mean") = R(0)
    /\ metrics["plain_llm"].response_time = R(25800)

====
